---- MODULE Spec2Model ----
(***************************************************************************)
(* A model of python/lsst/ci/build.py: Builder.run and what it calls:      *)
(* Builder.build, Builder._build_product_if_needed, Builder._build_product *)
(* (script generation, the child process, the select/read loop that tees   *)
(* the child's output into the unit's log), ProgressReporter and its       *)
(* ProductProgressReporter, declare_eups_tag, the status file and          *)
(* Builder.post_github_status.                                             *)
(*                                                                         *)
(* Python values: None is the string "None" where the other values are     *)
(* strings, NoUnit where they are units (positions in the product index),  *)
(* and NoneCode where they are exit codes.  Bytes and characters are       *)
(* one-character strings; byte strings and text are sequences of them.     *)
(***************************************************************************)
EXTENDS Integers, Sequences, FiniteSets, TLC

(* ------------------------------ bounds --------------------------------- *)

\* number of products in manifest.product_index
NumUnits == 2
\* most bytes a build script writes to its output
MaxBytes == 2
\* latest wall-clock second, counted from a unit's _build_started
MaxTime == 6

(* ------------------------- values of the program ------------------------ *)

Units == 1..NumUnits
\* failed_at = None
NoUnit == 0
\* process.poll() = None: the child has not terminated
NoneCode == -1
\* the exit codes of a build script: 0, or 1 (set -e, "exit 1")
ExitCodes == {0, 1}
\* sys.exit has not been called
NoExit == -1
\* the select timeout, and the step of the progress clock
SelectTimeout == 2
ProgressStep == 2
\* the build tag a manifest may carry
BuildTag == "b1"
\* the bytes a script writes: a letter, the line terminator, and "FF", a byte
\* (0xff) that is not valid UTF-8
Bytes == {"a", "\n", "FF"}
Digits == <<"1", "2", "3", "4", "5", "6", "7", "8", "9">>
\* product.version, as text
Version(u) == <<"v", Digits[u]>>

VARIABLES
    pc,            \* position in Builder.run
    exception,     \* the exception that left Builder.run, or "None"
    exitCode,      \* argument of sys.exit
    dirWritable,   \* os.access(build_dir, os.W_OK)
    agent,         \* agent_label()
    pr_info,       \* TRUE when build_dir/pr_info.json exists
    token,         \* os.environ GITHUB_TOKEN: "missing", "empty" or "set"
    build_url,     \* os.environ BUILD_URL: "missing" or "set"
    posts,         \* the states requests.post was called with, in order
    statusCalls,   \* the states post_github_status was called with, in order
    build_id,      \* manifest.build_id: "None" or the tag
    tagNames,      \* eups.tags.getTagNames()
    registerCalls, \* calls of tags.registerTag
    saveCalls,     \* calls of tags.saveGlobalTags
    products,      \* the package manager's database, per unit
    declareCalls,  \* calls of eups.declare(name, version, tag=...), per unit
    statusFile,    \* build_dir/status.yaml: "absent", "prior" or "current"
    statusWrites,  \* calls of write_status that wrote the file
    status_yaml,   \* the text write_status wrote to status.yaml, as lines
    built,         \* Builder.built
    failed_at,     \* Builder.failed_at
    idx,           \* position of the for loop of Builder.build
    retcode,       \* what Builder.build returned: "None", "True", "False"
    unit,          \* per unit, what happened to it (see UnitInit)
    product,       \* ProductProgressReporter.product (NoUnit after a report)
    progress_bar,  \* ProductProgressReporter.progress_bar
    out,           \* what was written to self.out after the unit's name
    t0,            \* ProductProgressReporter.t0
    t,             \* ProductProgressReporter.t
    now,           \* time.time()
    childState,    \* the child: "none", "running", "closed", "exited"
    childCode,     \* the exit code the child ends with
    sent,          \* the bytes the child has written, all read by the loop
    buf,           \* buf of the read loop
    logfp          \* the lines written to the unit's _build.log

vars == <<pc, exception, exitCode, dirWritable, agent, pr_info, token,
          build_url, posts, statusCalls, build_id, tagNames, registerCalls,
          saveCalls, products, declareCalls, statusFile, statusWrites,
          status_yaml, built, failed_at, idx, retcode, unit, product,
          progress_bar, out, t0, t, now, childState, childCode, sent, buf,
          logfp>>

envVars == <<dirWritable, agent, pr_info, token, build_url, build_id>>
tagVars == <<tagNames, registerCalls, saveCalls>>
reporterVars == <<product, progress_bar, out, t0, t, now>>
childVars == <<childState, childCode, sent>>
teeVars == <<buf, logfp>>

(* ------------------------------ helpers -------------------------------- *)

\* Python truth value of a return code: None and 0 are false
Truthy(rc) == rc # NoneCode /\ rc # 0

\* what happened to one unit
UnitInit ==
    [preinstalled |-> FALSE, \* getProduct found it before any build
     query |-> "none",       \* how the getProduct of line 293 ended
     scripts |-> 0,          \* times _build.sh was written
     launches |-> 0,         \* times subprocess.Popen ran it
     scope |-> "idle",       \* new_build: "idle", "active", "left", "raised"
     finalized |-> 0,        \* calls of _finalize
     result |-> "none",      \* _build_product_if_needed: "none", "True", "False"
     reported |-> "None",    \* the terminal line report_result wrote
     retcode |-> NoneCode,   \* retcode given to report_result
     logfile |-> "None",     \* logfile given to report_result
     exit |-> NoneCode,      \* exit code of the unit's script
     terminated |-> FALSE,   \* the child that ran the script has terminated
     copied |-> FALSE,       \* shutil.copy2(logfile, eups_prod.dir)
     retagged |-> FALSE]     \* eups.declare(tag=...) ran on a tagged product

\* an entry of the package manager's database
Absent == [installed |-> FALSE, tags |-> {}]
Installed(tags) == [installed |-> TRUE, tags |-> tags]

\* declare_eups_tag without the test of line 48
declare_eups_tag_unguarded(tag, names) ==
    [names |-> names \cup {tag}, registered |-> 1, saved |-> 1]

\* declare_eups_tag: the tag names after the call, and the calls it made
declare_eups_tag(tag, names) ==
    IF tag \notin names
    THEN [names |-> names \cup {tag}, registered |-> 1, saved |-> 1]
    ELSE [names |-> names, registered |-> 0, saved |-> 0]

\* Builder.build, before the loop
build_declare(bid, names) ==
    IF bid # "None"
    THEN declare_eups_tag(bid, names)
    ELSE [names |-> names, registered |-> 0, saved |-> 0]

\* Builder._tag_product on a product carrying `tags`
_tag_product(tags, tag) ==
    IF tag # "None"
    THEN [tags |-> tags \cup {tag}, calls |-> 1, retagged |-> tag \in tags]
    ELSE [tags |-> tags, calls |-> 0, retagged |-> FALSE]

\* line 297 without the test of the product's tags
needs_tag_any(found, tags, bid) == found

\* the condition of line 297: eups_prod is not None and build_id not in its tags
needs_tag(found, tags, bid) == found /\ bid \notin tags

\* lines 297-298 of _build_product_if_needed
tag_if_needed(found, tags, bid) ==
    IF needs_tag(found, tags, bid)
    THEN _tag_product(tags, bid)
    ELSE [tags |-> tags, calls |-> 0, retagged |-> FALSE]

\* report_progress with self.t += 1 at line 96
RECURSIVE report_progress_step_one(_, _, _, _)
report_progress_step_one(t1, tt, bar, o) ==
    IF tt <= t1
    THEN IF bar # <<>>
         THEN report_progress_step_one(t1, tt + 1, Tail(bar), Append(o, Head(bar)))
         ELSE report_progress_step_one(t1, tt + 1, bar, Append(o, "."))
    ELSE [t |-> tt, progress_bar |-> bar, out |-> o]

\* ProductProgressReporter.report_progress at time t1: the loop of lines 88-96
RECURSIVE report_progress(_, _, _, _)
report_progress(t1, tt, bar, o) ==
    IF tt <= t1
    THEN IF bar # <<>>
         THEN report_progress(t1, tt + ProgressStep, Tail(bar), Append(o, Head(bar)))
         ELSE report_progress(t1, tt + ProgressStep, bar, Append(o, "."))
    ELSE [t |-> tt, progress_bar |-> bar, out |-> o]

\* report_result testing the return code before the log file
result_line_by_code(rc, logfile) ==
    IF Truthy(rc) THEN "ERROR" ELSE "ok"

\* the terminal line of report_result
result_line(rc, logfile) ==
    IF logfile = "None" THEN "(already installed)"
    ELSE IF Truthy(rc) THEN "ERROR" ELSE "ok"

\* report_result without the flush of lines 101-103
report_result_no_flush(rc, logfile, bar, o) ==
    Append(o, result_line(rc, logfile))

\* ProductProgressReporter.report_result: what self.out holds after it
report_result(rc, logfile, bar, o) ==
    (IF bar # <<>> THEN o \o bar ELSE o) \o <<result_line(rc, logfile)>>

\* ProductProgressReporter._finalize: what self.out holds after it
_finalize(prod, o) == IF prod # NoUnit THEN Append(o, "\n") ELSE o

\* process.poll()
poll(state, code) == IF state = "exited" THEN code ELSE NoneCode

\* the return value of _build_product_if_needed (line 302)
step_result(rc) == rc = 0

\* the loop's body without the return of line 313
build_step_no_return(ok, u, b, f) ==
    [built |-> Append(b, u), failed_at |-> IF ok THEN f ELSE u,
     returns |-> IF u = NumUnits THEN "True" ELSE "None"]

\* the loop's body going on to the next unit after a failure
build_step_carry_on(ok, u, b, f) ==
    IF ~ok
    THEN [built |-> b, failed_at |-> u,
          returns |-> IF u = NumUnits THEN "False" ELSE "None"]
    ELSE [built |-> Append(b, u), failed_at |-> f,
          returns |-> IF u = NumUnits THEN "True" ELSE "None"]

\* the body of the loop of Builder.build (lines 311-314): built, failed_at and
\* what build returns ("None" while the loop goes on)
build_step(ok, u, b, f) ==
    IF ~ok
    THEN [built |-> b, failed_at |-> u, returns |-> "False"]
    ELSE [built |-> Append(b, u), failed_at |-> f,
          returns |-> IF u = NumUnits THEN "True" ELSE "None"]

\* the ways eups.getProduct(name, version) of line 293 can end for a product:
\* it returns the product, raises eups.ProductNotFound, or raises another error
getProduct(entry) ==
    IF entry.installed THEN {"found", "EupsError"}
    ELSE {"ProductNotFound", "EupsError"}

\* the try of lines 291-295 with a bare except
query_branch_catch_all(answer) ==
    IF answer = "found" THEN "installed" ELSE "build"

\* the try of lines 291-295: what follows the answer of getProduct
query_branch(answer) ==
    IF answer = "found" THEN "installed"
    ELSE IF answer = "ProductNotFound" THEN "build"
    ELSE "raise"

\* one line of the log: the timestamp and the bytes after it
LogLine(ts, bytes) == [ts |-> ts, text |-> bytes]

\* bytes.decode() (UTF-8, strict) succeeds on b
Decodable(b) == \A i \in 1..Len(b) : b[i] # "FF"

\* buf.decode() of line 269, for bytes it succeeds on: the text of the bytes
decode(b) == [i \in 1..Len(b) |-> b[i]]

\* lines 267-271 of the read loop on the byte c (<<>> at end of file): the
\* buffer and the log after them, and whether buf.decode() raised
tee_read(c, b, log, ts) ==
    LET b1 == b \o c
    IN IF (c = <<>> \/ c = <<"\n">>) /\ b1 # <<>>
       THEN IF Decodable(b1)
            THEN [buf |-> <<>>, logfp |-> Append(log, LogLine(ts, decode(b1))),
                  raised |-> FALSE]
            ELSE [buf |-> b1, logfp |-> log, raised |-> TRUE]
       ELSE [buf |-> b1, logfp |-> log, raised |-> FALSE]

(* --------------------------- the status record -------------------------- *)

\* product.name and product.sha1, as text
Name(u) == <<"p", Digits[u]>>
Sha1(u) == <<"s", Digits[u]>>
\* the models.Product at position u of the product index: what build.py reads
\* of it
Product(u) == [name |-> Name(u), sha1 |-> Sha1(u), version |-> Version(u)]
\* str(x) of a str
str(x) == x

\* product_representer: the mapping a product is written as
product_representer(data) ==
    [name |-> str(data.name), sha1 |-> str(data.sha1),
     version |-> str(data.version)]

\* A YAML document in block style is a sequence of lines; a line is the text
\* before its key (empty at the top level, "- " at the start of a list item,
\* two spaces inside a nested mapping), its key, and the scalar after the colon
\* (empty when a block follows).
Line(lead, key, scalar) == [lead |-> lead, key |-> key, scalar |-> scalar]
EmptyFlowList == <<"[", "]">>
Null == <<"n", "u", "l", "l">>

\* a mapping of three keys, written with sorted keys
represent_mapping(lead, m) ==
    << Line(lead, "name", m.name),
       Line("  ", "sha1", m.sha1),
       Line("  ", "version", m.version) >>

\* a list of products under a key
RECURSIVE represent_list(_)
represent_list(ps) ==
    IF ps = <<>> THEN <<>>
    ELSE represent_mapping("- ", product_representer(Product(Head(ps))))
            \o represent_list(Tail(ps))

\* yaml.dump(status, default_flow_style=False): the keys sorted
yaml_dump(status) ==
    (IF status.built = <<>>
     THEN << Line("", "built", EmptyFlowList) >>
     ELSE << Line("", "built", <<>>) >> \o represent_list(status.built))
    \o (IF "failed_at" \notin DOMAIN status THEN <<>>
        ELSE IF status.failed_at = NoUnit
             THEN << Line("", "failed_at", Null) >>
             ELSE << Line("", "failed_at", <<>>) >>
                  \o represent_mapping("  ",
                         product_representer(Product(status.failed_at))))

\* write_status setting the failed_at key whatever failed_at is
write_status_any(b, f) == yaml_dump([built |-> b, failed_at |-> f])

\* write_status (lines 324-333): the text of status.yaml
write_status(b, f) ==
    IF f # NoUnit
    THEN yaml_dump([built |-> b, failed_at |-> f])
    ELSE yaml_dump([built |-> b])

\* Reading the document back (yaml.safe_load).
\* the lines of the block under the top-level key at line i
Block(doc, i) ==
    LET tops == {j \in (i + 1)..Len(doc) : doc[j].lead = ""}
        end == IF tops = {} THEN Len(doc)
               ELSE (CHOOSE j \in tops : \A k \in tops : j <= k) - 1
    IN SubSeq(doc, i + 1, end)
\* a block of "key: scalar" lines as a mapping
load_mapping(lines) ==
    [k \in {lines[i].key : i \in 1..Len(lines)} |->
        lines[CHOOSE i \in 1..Len(lines) : lines[i].key = k].scalar]
\* a block of list items as a sequence of mappings
load_list(lines) ==
    LET starts == {i \in 1..Len(lines) : lines[i].lead = "- "}
        Nth(n) == CHOOSE i \in starts :
                      Cardinality({j \in starts : j <= i}) = n
        Last(n) == IF n = Cardinality(starts) THEN Len(lines) ELSE Nth(n + 1) - 1
    IN [n \in 1..Cardinality(starts) |->
           load_mapping(SubSeq(lines, Nth(n), Last(n)))]
\* the value of the top-level key at line i
load_value(doc, i) ==
    IF doc[i].scalar = EmptyFlowList THEN <<>>
    ELSE IF doc[i].scalar = Null THEN Null
    ELSE IF doc[i].key = "built" THEN load_list(Block(doc, i))
    ELSE load_mapping(Block(doc, i))
yaml_load(doc) ==
    LET tops == {i \in 1..Len(doc) : doc[i].lead = ""}
    IN [k \in {doc[i].key : i \in tops} |->
           load_value(doc, CHOOSE i \in tops : doc[i].key = k)]

(* ------------------------------- Init ---------------------------------- *)

\* The environment of a run.  A value the run never reads is fixed: nothing
\* after the directory check when the directory is not writable, the token
\* and the build URL when no status is posted (no pr_info.json, or the agent
\* label is "error"), the build URL when the token is not set, and the tag
\* names when the manifest has no build_id.
Environments ==
    { e \in [dirWritable : BOOLEAN, agent : {"agent", "error"},
             pr_info : BOOLEAN, token : {"missing", "empty", "set"},
             build_url : {"missing", "set"}, build_id : {"None", BuildTag},
             tagNames : SUBSET {BuildTag}, statusFile : {"absent", "prior"}] :
        /\ ~e.pr_info => e.agent = "agent"
        /\ ~(e.pr_info /\ e.agent # "error") =>
              (e.token = "set" /\ e.build_url = "set")
        /\ e.token # "set" => e.build_url = "set"
        /\ e.build_id = "None" => e.tagNames = {}
        /\ ~e.dirWritable =>
              /\ ~e.pr_info
              /\ e.build_id = "None"
              /\ e.statusFile = "prior" }

Init ==
    /\ pc = "start"
    /\ exception = "None"
    /\ exitCode = NoExit
    /\ \E e \in Environments :
          /\ dirWritable = e.dirWritable
          /\ agent = e.agent
          /\ pr_info = e.pr_info
          /\ token = e.token
          /\ build_url = e.build_url
          /\ build_id = e.build_id
          /\ tagNames = e.tagNames
          /\ statusFile = e.statusFile
    \* an installed product may carry the build tag of the manifest
    /\ products \in
          { p \in [Units -> {Absent, Installed({}), Installed({BuildTag})}] :
              build_id = "None" => \A u \in Units : p[u].tags = {} }
    /\ posts = <<>>
    /\ statusCalls = <<>>
    /\ registerCalls = 0
    /\ saveCalls = 0
    /\ declareCalls = [u \in Units |-> 0]
    /\ statusWrites = 0
    /\ status_yaml = <<>>
    /\ built = <<>>
    /\ failed_at = NoUnit
    /\ idx = 1
    /\ retcode = "None"
    /\ unit = [u \in Units |-> UnitInit]
    /\ product = NoUnit
    /\ progress_bar = <<>>
    /\ out = <<>>
    /\ t0 = 0
    /\ t = 0
    /\ now = 0
    /\ childState = "none"
    /\ childCode = NoneCode
    /\ sent = <<>>
    /\ buf = <<>>
    /\ logfp = <<>>

(* ----------------------------- Builder.run ------------------------------ *)

\* an exception leaves Builder.run
Raise(e) ==
    /\ pc' = "raised"
    /\ exception' = e

\* lines 338-359: the build directory check, then the manifest, pr_info and
\* rm_status
RunSetup ==
    /\ pc = "start"
    /\ IF ~dirWritable
       THEN /\ Raise("Exception")
            /\ UNCHANGED statusFile
       ELSE /\ pc' = "pending"
            /\ statusFile' = "absent"
            /\ UNCHANGED exception
    /\ UNCHANGED <<exitCode, envVars, posts, statusCalls, tagVars, products,
                   declareCalls, statusWrites, status_yaml, built, failed_at,
                   idx, retcode, unit, reporterVars, childVars, teeVars>>

\* the condition of lines 362 and 370
notifies == pr_info /\ agent # "error"

\* post_github_status(state): what the call does, one of
\* "KeyError" (os.environ[...] of a missing name), "return" (empty token),
\* "post" (requests.post was called)
post_github_status ==
    IF token = "missing" THEN "KeyError"
    ELSE IF token = "empty" THEN "return"
    ELSE IF build_url = "missing" THEN "KeyError"
    ELSE "post"

\* a call of post_github_status(state) from Builder.run, going on at `next`
Notify(state, next) ==
    IF ~notifies
    THEN /\ pc' = next
         /\ UNCHANGED <<exception, posts, statusCalls>>
    ELSE /\ statusCalls' = Append(statusCalls, state)
         /\ \/ /\ post_github_status = "KeyError"
               /\ Raise("KeyError")
               /\ UNCHANGED posts
            \/ /\ post_github_status = "return"
               /\ pc' = next
               /\ UNCHANGED <<exception, posts>>
            \/ /\ post_github_status = "post"
               /\ posts' = Append(posts, state)
               /\ \E response \in {"201", "500", "ConnectionError"} :
                     IF response = "ConnectionError"
                     THEN Raise("ConnectionError")
                     ELSE /\ pc' = next
                          /\ UNCHANGED exception

\* lines 361-365
PostPending ==
    /\ pc = "pending"
    /\ Notify("pending", "build")
    /\ UNCHANGED <<exitCode, envVars, tagVars, products, declareCalls,
                   statusFile, statusWrites, status_yaml, built, failed_at,
                   idx, retcode, unit, reporterVars, childVars, teeVars>>

\* lines 369-373
PostTerminal ==
    /\ pc = "terminal"
    /\ Notify(IF retcode = "True" THEN "success" ELSE "failure", "write")
    /\ UNCHANGED <<exitCode, envVars, tagVars, products, declareCalls,
                   statusFile, statusWrites, status_yaml, built, failed_at,
                   idx, retcode, unit, reporterVars, childVars, teeVars>>

\* lines 375-376: write_status, then sys.exit
WriteStatus ==
    /\ pc = "write"
    /\ statusFile' = "current"
    /\ statusWrites' = statusWrites + 1
    /\ status_yaml' = write_status(built, failed_at)
    /\ exitCode' = IF retcode = "True" THEN 0 ELSE 1
    /\ pc' = "exited"
    /\ UNCHANGED <<exception, envVars, posts, statusCalls, tagVars, products,
                   declareCalls, built, failed_at, idx, retcode, unit,
                   reporterVars, childVars, teeVars>>

(* ---------------------------- Builder.build ----------------------------- *)

\* lines 306-307, and the loop's start
BuildBegin ==
    /\ pc = "build"
    /\ LET d == build_declare(build_id, tagNames)
       IN /\ tagNames' = d.names
          /\ registerCalls' = registerCalls + d.registered
          /\ saveCalls' = saveCalls + d.saved
    /\ pc' = "loop"
    /\ idx' = 1
    /\ UNCHANGED <<exception, exitCode, envVars, posts, statusCalls, products,
                   declareCalls, statusFile, statusWrites, status_yaml, built,
                   failed_at, retcode, unit, reporterVars, childVars, teeVars>>

\* the loop of Builder.build after _build_product_if_needed(u) returned ok
LoopStep(u, ok) ==
    LET s == build_step(ok, u, built, failed_at)
    IN /\ built' = s.built
       /\ failed_at' = s.failed_at
       /\ IF s.returns = "None"
          THEN /\ pc' = "loop"
               /\ idx' = u + 1
               /\ UNCHANGED retcode
          ELSE /\ pc' = "terminal"
               /\ retcode' = s.returns
               /\ UNCHANGED idx

(* ------------------- Builder._build_product_if_needed ------------------- *)

\* ProgressReporter.new_build up to its yield: _build_started (lines 73-77).
\* Only differences of clock readings are used, and only within one unit's
\* build, so the clock is read as the seconds since this moment.
BuildStarted(u) ==
    /\ now' = 0
    /\ t0' = 0
    /\ t' = 0
    /\ progress_bar' = Version(u) \o <<" ">>

\* lines 290-302 for a unit eups.getProduct finds, and the loop's step after it
AlreadyInstalled ==
    /\ pc = "loop"
    /\ \E answer \in getProduct(products[idx]) :
          query_branch(answer) = "installed"
    /\ BuildStarted(idx)
    /\ LET u == idx
           rc == 0
           logfile == "None"
           tg == tag_if_needed(TRUE, products[u].tags, build_id)
           o == report_result(rc, logfile, Version(u) \o <<" ">>, <<>>)
       IN /\ products' = [products EXCEPT ![u].tags = tg.tags]
          /\ declareCalls' = [declareCalls EXCEPT ![u] = @ + tg.calls]
          /\ product' = NoUnit
          /\ out' = _finalize(NoUnit, o)
          /\ unit' = [unit EXCEPT ![u] =
                [@ EXCEPT !.preinstalled = TRUE, !.query = "found",
                          !.scope = "left",
                          !.finalized = @ + 1,
                          !.result = IF step_result(rc) THEN "True" ELSE "False",
                          !.reported = result_line(rc, logfile),
                          !.retcode = rc, !.logfile = logfile,
                          !.retagged = tg.retagged]]
          /\ LoopStep(u, step_result(rc))
    /\ UNCHANGED <<exception, exitCode, envVars, posts, statusCalls, tagVars,
                   statusFile, statusWrites, status_yaml, childVars, teeVars>>

\* line 293 raises something other than eups.ProductNotFound: the exception
\* leaves the with block, new_build's generator ends at its yield, and
\* _finalize is not reached
QueryFault ==
    /\ pc = "loop"
    /\ BuildStarted(idx)
    /\ product' = idx
    /\ out' = <<>>
    /\ \E answer \in getProduct(products[idx]) :
          /\ query_branch(answer) = "raise"
          /\ unit' = [unit EXCEPT ![idx] =
                [@ EXCEPT !.scope = "raised", !.query = answer]]
    /\ Raise("EupsError")
    /\ UNCHANGED <<exitCode, envVars, posts, statusCalls, tagVars, products,
                   declareCalls, statusFile, statusWrites, status_yaml, built,
                   failed_at, idx, retcode, childVars, teeVars>>

\* line 293 raises eups.ProductNotFound; _build_product writes the script,
\* opens the log and starts the child (lines 175-261)
Launch ==
    /\ pc = "loop"
    /\ BuildStarted(idx)
    /\ product' = idx
    /\ out' = <<>>
    /\ \E answer \in getProduct(products[idx]) :
          /\ query_branch(answer) = "build"
          /\ unit' = [unit EXCEPT ![idx] =
                [@ EXCEPT !.scope = "active", !.query = answer,
                          !.scripts = @ + 1, !.launches = @ + 1]]
    /\ childState' = "running"
    /\ childCode' = NoneCode
    /\ sent' = <<>>
    /\ buf' = <<>>
    /\ logfp' = <<>>
    /\ pc' = "tee"
    /\ UNCHANGED <<exception, exitCode, envVars, posts, statusCalls, tagVars,
                   products, declareCalls, statusFile, statusWrites,
                   status_yaml, built, failed_at, idx, retcode>>

(* --------------------------- the child process -------------------------- *)

\* the script ends with `code` and its output stream closes; a script that
\* ends with 0 has declared the product (eupspkg ... decl)
ChildClose ==
    /\ pc = "tee"
    /\ childState = "running"
    /\ \E code \in ExitCodes :
          /\ childCode' = code
          /\ unit' = [unit EXCEPT ![idx].exit = code]
          /\ products' = IF code = 0
                         THEN [products EXCEPT ![idx] = Installed({})]
                         ELSE products
    /\ childState' = "closed"
    /\ UNCHANGED <<pc, exception, exitCode, envVars, posts, statusCalls,
                   tagVars, declareCalls, statusFile, statusWrites,
                   status_yaml, built, failed_at, idx, retcode, reporterVars,
                   sent, teeVars>>

\* the child terminates: poll() gives its exit code from now on
ChildExit ==
    /\ pc \in {"tee", "poll"}
    /\ childState = "closed"
    /\ childState' = "exited"
    /\ unit' = [unit EXCEPT ![idx].terminated = TRUE]
    /\ UNCHANGED <<pc, exception, exitCode, envVars, posts, statusCalls,
                   tagVars, products, declareCalls, statusFile, statusWrites,
                   status_yaml, built, failed_at, idx, retcode, reporterVars,
                   childCode, sent, teeVars>>

(* ------------------- the read loop of _build_product -------------------- *)

\* line 275
Tick ==
    LET p == report_progress(now', t, progress_bar, out)
    IN /\ t' = p.t
       /\ progress_bar' = p.progress_bar
       /\ out' = p.out

\* buf.decode() raises at line 269: the exception leaves the loop, the with
\* blocks and Builder.run
DecodeError ==
    /\ unit' = [unit EXCEPT ![idx].scope = "raised"]
    /\ Raise("UnicodeDecodeError")

\* select times out (nothing to read for 2 seconds), then line 275; the clock
\* of line 87 is read d seconds after the select began, the timeout or more
TeeTimeout ==
    /\ pc = "tee"
    /\ childState = "running"
    /\ \E d \in SelectTimeout..(MaxTime - now) : now' = now + d
    /\ Tick
    /\ UNCHANGED <<pc, exception, exitCode, envVars, posts, statusCalls,
                   tagVars, products, declareCalls, statusFile, statusWrites,
                   status_yaml, built, failed_at, idx, retcode, unit, product,
                   t0, childVars, teeVars>>

\* the child writes a byte, select returns before its timeout and read(1)
\* gives the byte (lines 264-271), then line 275
ReadByte ==
    /\ pc = "tee"
    /\ childState = "running"
    /\ Len(sent) < MaxBytes
    /\ \E c \in Bytes, d \in 0..(SelectTimeout - 1) :
          /\ now + d <= MaxTime
          /\ now' = now + d
          /\ sent' = Append(sent, c)
          /\ LET r == tee_read(<<c>>, buf, logfp, now')
             IN /\ buf' = r.buf
                /\ logfp' = r.logfp
                /\ IF r.raised
                   THEN /\ DecodeError
                        /\ UNCHANGED <<progress_bar, out, t>>
                   ELSE /\ Tick
                        /\ UNCHANGED <<pc, exception, unit>>
    /\ UNCHANGED <<exitCode, envVars, posts, statusCalls, tagVars, products,
                   declareCalls, statusFile, statusWrites, status_yaml, built,
                   failed_at, idx, retcode, product, t0, childState,
                   childCode>>

\* the stream is at its end: read(1) gives b"" and the loop breaks
\* (lines 264-274)
ReadEOF ==
    /\ pc = "tee"
    /\ childState \in {"closed", "exited"}
    /\ \E d \in 0..(SelectTimeout - 1) :
          /\ now + d <= MaxTime
          /\ now' = now + d
          /\ LET r == tee_read(<<>>, buf, logfp, now')
             IN /\ buf' = r.buf
                /\ logfp' = r.logfp
                /\ IF r.raised
                   THEN DecodeError
                   ELSE /\ pc' = "poll"
                        /\ UNCHANGED <<exception, unit>>
    /\ UNCHANGED <<exitCode, envVars, posts, statusCalls, tagVars, products,
                   declareCalls, statusFile, statusWrites, status_yaml, built,
                   failed_at, idx, retcode, product, progress_bar, out, t0, t,
                   childVars>>

(* --------------- after the loop: lines 277-285 and 297-302 -------------- *)

\* _build_product and the with block of line 290 are left: the loop's locals,
\* the log's file object and the ProductProgressReporter are gone, and the
\* clock is not read again before the next _build_started
LocalsGone ==
    /\ sent' = <<>>
    /\ buf' = <<>>
    /\ logfp' = <<>>
    /\ progress_bar' = <<>>
    /\ t0' = 0
    /\ t' = 0
    /\ now' = 0

\* line 280 raises eups.ProductNotFound inside the except clause of line 294:
\* it leaves the with block, and _finalize is not reached
FinishNotFound ==
    /\ pc = "poll"
    /\ ~Truthy(poll(childState, childCode))
    /\ ~products[idx].installed
    /\ unit' = [unit EXCEPT ![idx].scope = "raised"]
    /\ childState' = "none"
    /\ Raise("ProductNotFound")
    /\ UNCHANGED <<exitCode, envVars, posts, statusCalls, tagVars, products,
                   declareCalls, statusFile, statusWrites, status_yaml, built,
                   failed_at, idx, retcode, reporterVars, childCode, sent,
                   teeVars>>

\* lines 277-285, then 297-302, then the loop's step
FinishBuild ==
    /\ pc = "poll"
    /\ LET u == idx
           rc == poll(childState, childCode)
           logfile == "_build.log"
           found == ~Truthy(rc)
           tg == tag_if_needed(found, products[u].tags, build_id)
           o == report_result(rc, logfile, progress_bar, out)
       IN /\ found => products[u].installed
          /\ products' = [products EXCEPT ![u].tags = tg.tags]
          /\ declareCalls' = [declareCalls EXCEPT ![u] = @ + tg.calls]
          /\ product' = NoUnit
          /\ out' = _finalize(NoUnit, o)
          /\ unit' = [unit EXCEPT ![u] =
                [@ EXCEPT !.scope = "left", !.finalized = @ + 1,
                          !.result = IF step_result(rc) THEN "True" ELSE "False",
                          !.reported = result_line(rc, logfile),
                          !.retcode = rc, !.logfile = logfile,
                          !.copied = found, !.retagged = tg.retagged]]
          /\ LoopStep(u, step_result(rc))
    /\ childState' = "none"
    /\ childCode' = NoneCode
    /\ LocalsGone
    /\ UNCHANGED <<exception, exitCode, envVars, posts, statusCalls, tagVars,
                   statusFile, statusWrites, status_yaml>>

(* ------------------------------- Next ----------------------------------- *)

Next ==
    \/ RunSetup
    \/ PostPending
    \/ BuildBegin
    \/ AlreadyInstalled
    \/ QueryFault
    \/ Launch
    \/ ChildClose
    \/ ChildExit
    \/ TeeTimeout
    \/ ReadByte
    \/ ReadEOF
    \/ FinishNotFound
    \/ FinishBuild
    \/ PostTerminal
    \/ WriteStatus

Spec == Init /\ [][Next]_vars

(* ------------------------------ properties ----------------------------- *)

\* Builder.build has returned
BuildReturned == retcode # "None"
\* Builder.run has ended: sys.exit, or an exception
RunEnded == pc \in {"exited", "raised"}
\* a build step has started for u (new_build was entered)
Attempted(u) == unit[u].scope # "idle"
\* the units 1..n in manifest order
FirstUnits(n) == [i \in 1..n |-> i]
InBuilt(u) == \E i \in 1..Len(built) : built[i] = u
\* the unit the last finished build step was about, while Builder.run goes on
LastDone ==
    IF failed_at # NoUnit THEN failed_at
    ELSE IF built # <<>> THEN built[Len(built)] ELSE NoUnit
\* u was not installed when the run began
NotPreinstalled(u) == unit[u].launches > 0 \/ ~products[u].installed

\* C1: when Builder.build has returned and unit k is the first unit whose
\* build step failed, built is the units 1..k-1 in manifest order, failed_at
\* is k, and no script was written or started for a unit after k.
C1_StopsAtFirstFailure ==
    \A k \in Units :
        ( /\ BuildReturned
          /\ unit[k].result = "False"
          /\ \A j \in 1..(k - 1) : unit[j].result # "False" )
        => /\ built = FirstUnits(k - 1)
           /\ failed_at = k
           /\ \A j \in (k + 1)..NumUnits :
                 /\ unit[j].scripts = 0
                 /\ unit[j].launches = 0
                 /\ ~Attempted(j)

\* a script ended with 1 for a unit that is not the last: build returned
\* False and the units after it were left alone
C1_Witness ==
    \E k \in Units :
        /\ k < NumUnits
        /\ retcode = "False"
        /\ unit[k].result = "False"
        /\ unit[k].exit = 1
        /\ failed_at = k

\* C2: when no unit was installed before the run and every script that ran
\* ended with exit code 0, Builder.build returns True, built is all the units
\* in manifest order and failed_at is None.
C2_AllScriptsSucceed ==
    ( /\ BuildReturned
      /\ \A u \in Units : NotPreinstalled(u) /\ unit[u].exit # 1 )
    => /\ retcode = "True"
       /\ built = FirstUnits(NumUnits)
       /\ failed_at = NoUnit

\* C3: a unit that was built is recorded as succeeded exactly when its script
\* ended with exit code 0, whenever the child terminates relative to the end
\* of its output.
C3_ResultIsExitCode ==
    \A u \in Units :
        (unit[u].launches > 0 /\ unit[u].result # "none")
        => (unit[u].result = "True" <=> unit[u].exit = 0)

\* C4: for a unit found installed no script is written and no child started,
\* the outcome is return code 0 with logfile None, the progress output ends
\* with "(already installed)", and the unit is in built.
C4_AlreadyInstalled ==
    \A u \in Units :
        unit[u].preinstalled
        => /\ unit[u].scripts = 0
           /\ unit[u].launches = 0
           /\ unit[u].retcode = 0
           /\ unit[u].logfile = "None"
           /\ unit[u].result = "True"
           /\ unit[u].reported = "(already installed)"
           /\ InBuilt(u)
           /\ (pc \in {"loop", "terminal", "write", "exited"} /\ LastDone = u)
              => out = Version(u) \o <<" ", "(already installed)">>

\* an installed unit went through its build step, after a unit that was built
C4_Witness ==
    \E u \in Units :
        /\ unit[u].preinstalled
        /\ InBuilt(u)
        /\ LastDone = u
        /\ pc = "exited"
        /\ \E v \in Units : unit[v].launches = 1

\* C5: once the scope of new_build was left for a unit, normally or by an
\* exception, _finalize has run exactly once for it.
C5_FinalizeOnce ==
    \A u \in Units :
        unit[u].scope \in {"left", "raised"} => unit[u].finalized = 1

\* C6: a run in which a notification failed (no GITHUB_TOKEN or BUILD_URL in
\* the environment, or the post failed) still ends with the status record
\* written and with the exit code of the build result.
NotificationFailed == exception \in {"KeyError", "ConnectionError"}
C6_NotificationNeverFatal ==
    (RunEnded /\ NotificationFailed)
    => /\ BuildReturned
       /\ statusFile = "current"
       /\ exitCode = IF retcode = "True" THEN 0 ELSE 1

\* C7: in a run that passed the build directory check, no unit is attempted
\* while the record of a prior run is there, the status record is written at
\* most once and only at the end, and the run ends with its own record
\* written once.
C7_StatusRecord ==
    /\ (\E u \in Units : Attempted(u)) => statusFile # "prior"
    /\ statusWrites <= 1
    /\ statusWrites = 1 => pc = "exited"
    /\ (RunEnded /\ dirWritable) => (statusFile = "current" /\ statusWrites = 1)

\* C8: the exit code is 0 exactly when every unit was found installed or its
\* script ended with 0, and 1 exactly when the script of some unit failed.
C8_ExitCode ==
    pc = "exited"
    => /\ exitCode = 0 <=>
             \A u \in Units : unit[u].preinstalled \/ unit[u].exit = 0
       /\ exitCode = 1 <=> \E u \in Units : unit[u].exit = 1

\* C9: with a build tag, every unit in built carries the tag from the moment
\* it is appended; eups.declare(tag=...) is called at most once for a unit
\* and never for a unit that carries the tag; without a build tag it is not
\* called.
C9_Tagging ==
    /\ build_id # "None" =>
          \A i \in 1..Len(built) : build_id \in products[built[i]].tags
    /\ \A u \in Units : ~unit[u].retagged /\ declareCalls[u] <= 1
    /\ build_id = "None" => \A u \in Units : declareCalls[u] = 0

\* a run with a build tag built and tagged one unit, and left alone the tag
\* of a unit that was installed and tagged before
C9_Witness ==
    /\ build_id = BuildTag
    /\ pc = "exited"
    /\ \E u, v \in Units :
          /\ InBuilt(u) /\ unit[u].launches = 1 /\ declareCalls[u] = 1
          /\ InBuilt(v) /\ unit[v].preinstalled /\ declareCalls[v] = 0
          /\ BuildTag \in products[v].tags

\* C10: the build tag is registered at most once and saved with it, before
\* any unit is attempted; registerTag is called only with a build tag that
\* the tag store does not hold yet; with no build tag nothing is registered.
C10_Registered ==
    /\ registerCalls <= 1
    /\ saveCalls = registerCalls
    /\ build_id = "None" => registerCalls = 0
    /\ (build_id # "None" /\ \E u \in Units : Attempted(u))
       => build_id \in tagNames
C10_RegisterStep ==
    (registerCalls' # registerCalls \/ saveCalls' # saveCalls)
    => /\ build_id # "None"
       /\ build_id \notin tagNames
       /\ \A u \in Units : ~Attempted(u)
C10_RegisterOnce == [](C10_Registered) /\ [][C10_RegisterStep]_vars

\* the tag was registered, and units were then built
C10_Witness ==
    /\ build_id = BuildTag
    /\ registerCalls = 1
    /\ saveCalls = 1
    /\ BuildTag \in tagNames
    /\ \E u \in Units : InBuilt(u)

(* ---------------------- the log and the progress display ---------------- *)

\* the unit at idx was started and its read loop is over: by the break of
\* line 274, or by an exception
TeeOver == unit[idx].launches > 0 /\ pc \in {"poll", "raised"}
\* the bytes of s after its last line terminator
UnterminatedTail(s) ==
    LET ends == {i \in 1..Len(s) : s[i] = "\n"}
        last == IF ends = {} THEN 0 ELSE CHOOSE i \in ends : \A j \in ends : j <= i
    IN SubSeq(s, last + 1, Len(s))

\* C11: every line of the unit's log carries a timestamp read when the line
\* was written, the timestamps do not decrease down the file, and once the
\* read loop is over a non-empty unterminated last line of the child's output
\* is the last line of the log.
C11_LogTimestamps ==
    /\ pc \in {"tee", "poll"} =>
          \A i \in 1..Len(logfp) : t0 <= logfp[i].ts /\ logfp[i].ts <= now
    /\ \A i, j \in 1..Len(logfp) : i < j => logfp[i].ts <= logfp[j].ts
    /\ (TeeOver /\ UnterminatedTail(sent) # <<>>)
       => /\ logfp # <<>>
          /\ logfp[Len(logfp)].text = UnterminatedTail(sent)

(* ------------------------ the installed-state query --------------------- *)

\* C12: when getProduct ends with an error other than ProductNotFound for a
\* unit, the error leaves Builder.run, no script is written or started for the
\* unit, the unit is not in built and no later unit is attempted; a script is
\* written and started only after the answer ProductNotFound.
C12_QueryErrorPropagates ==
    /\ \A u \in Units :
          unit[u].query = "EupsError"
          => /\ pc = "raised"
             /\ exception = "EupsError"
             /\ unit[u].scripts = 0
             /\ unit[u].launches = 0
             /\ ~InBuilt(u)
             /\ \A j \in (u + 1)..NumUnits : ~Attempted(j)
    /\ \A u \in Units :
          (unit[u].scripts > 0 \/ unit[u].launches > 0)
          => unit[u].query = "ProductNotFound"

\* the query failed for a unit that is not the last, after a unit was built
\* or while a unit waits behind it
C12_Witness ==
    \E u \in Units :
        /\ unit[u].query = "EupsError"
        /\ exception = "EupsError"
        /\ u < NumUnits

(* --------------------------- the status record -------------------------- *)

\* the identity of a unit: its name, version and fingerprint
Identity(u) == [name |-> Name(u), version |-> Version(u), sha1 |-> Sha1(u)]

\* C13: the record write_status wrote, read back, has under "built" the
\* identities (name, version, sha1) of the units of built in the same order,
\* has the key "failed_at" exactly when failed_at is not None, and under it the
\* identity of failed_at.
C13_StatusRoundTrip ==
    statusFile = "current"
    => LET status == yaml_load(status_yaml)
       IN /\ "built" \in DOMAIN status
          /\ Len(status.built) = Len(built)
          /\ \A i \in 1..Len(built) : status.built[i] = Identity(built[i])
          /\ "failed_at" \in DOMAIN status <=> failed_at # NoUnit
          /\ failed_at # NoUnit => status.failed_at = Identity(failed_at)

\* a record with a unit in built and a failed unit after it was written
C13_Witness ==
    /\ statusFile = "current"
    /\ built # <<>>
    /\ failed_at # NoUnit
    /\ Len(status_yaml) = 2 + 3 * (Len(built) + 1)

(* -------------------------- the progress display ------------------------ *)

\* what _build_started primes the display buffer with
Primed(u) == Version(u) \o <<" ">>
TerminalLines == {"ok", "ERROR", "(already installed)"}

\* C14: while a unit is built, what was written after its name is the
\* consumed part of the version and separator, in order, then dots, and no dot
\* is written while a character of the buffer remains; once the result was
\* reported, it is the version, the separator, zero or more dots and one
\* terminal line, with nothing after it.
C14_ProgressOutput ==
    /\ pc \in {"tee", "poll"} =>
          LET k == Len(Primed(idx)) - Len(progress_bar)
          IN /\ 0 <= k /\ k <= Len(out)
             /\ SubSeq(out, 1, k) \o progress_bar = Primed(idx)
             /\ \A i \in (k + 1)..Len(out) : out[i] = "."
             /\ progress_bar # <<>> => Len(out) = k
    /\ (pc \in {"loop", "terminal", "write", "exited"} /\ LastDone # NoUnit) =>
          LET u == LastDone
              n == Len(out)
              m == Len(Primed(u))
          IN /\ n >= m + 1
             /\ SubSeq(out, 1, m) = Primed(u)
             /\ \A i \in (m + 1)..(n - 1) : out[i] = "."
             /\ out[n] \in TerminalLines
             /\ out[n] = unit[u].reported
             /\ unit[u].finalized = 1

\* the result of a unit that was built was reported after a dot was written
C14_Witness ==
    /\ pc = "exited"
    /\ LastDone # NoUnit
    /\ unit[LastDone].launches = 1
    /\ Len(out) > Len(Primed(LastDone)) + 1

\* C15: while a unit is built, the number of characters report_progress has
\* written is at most floor(elapsed / 2) + 1, elapsed being the time since t0.
C15_Throttle ==
    pc \in {"tee", "poll"} => Len(out) <= ((now - t0) \div ProgressStep) + 1

\* the bound is met after the buffer was written out and a dot followed
C15_Witness ==
    /\ pc = "tee"
    /\ progress_bar = <<>>
    /\ Len(out) > Len(Primed(idx))
    /\ Len(out) = ((now - t0) \div ProgressStep) + 1

(* ------------------------------- the log -------------------------------- *)

\* the log with the timestamp prefixes removed
RECURSIVE Unprefixed(_)
Unprefixed(log) ==
    IF log = <<>> THEN <<>> ELSE Head(log).text \o Unprefixed(Tail(log))
\* a line terminator in s before its last position
BrokenLine(s) == \E i \in 1..(Len(s) - 1) : s[i] = "\n"

\* C16: the log of the unit being built, without its prefixes, followed by the
\* line buffer is the bytes the child has written; every prefix is followed by
\* one line (terminated, but for the last); the buffer holds no terminated
\* line; and when the read loop is over the buffer is empty, so that the log
\* without its prefixes is the child's output.
C16_LogIsOutput ==
    (unit[idx].launches > 0 /\ pc \in {"tee", "poll", "raised"})
    => /\ Unprefixed(logfp) \o buf = sent
       /\ \A i \in 1..Len(logfp) :
             /\ logfp[i].text # <<>>
             /\ ~BrokenLine(logfp[i].text)
             /\ i < Len(logfp) => logfp[i].text[Len(logfp[i].text)] = "\n"
       /\ \A i \in 1..Len(buf) : buf[i] # "\n"
       /\ TeeOver => (buf = <<>> /\ Unprefixed(logfp) = sent)

(* --------------------------- the end of the loop ------------------------ *)

\* the read loop of the unit at idx is left in this step
LoopLeft == pc = "tee" /\ pc' # "tee"

\* C17: the read loop is left only by the break after a zero-length read, which
\* the child's closing of its output makes possible, and never while the child
\* still holds its output open; while it does, the loop goes on and no later
\* unit is attempted.
C17_LoopEndStep ==
    LoopLeft => /\ childState \in {"closed", "exited"}
                /\ pc' = "poll"
C17_OpenStream ==
    childState = "running"
    => /\ pc = "tee"
       /\ \A j \in (idx + 1)..NumUnits : ~Attempted(j)
C17_LoopEndsAtEOF == [](C17_OpenStream) /\ [][C17_LoopEndStep]_vars

(* ----------------------------- one at a time ---------------------------- *)

\* the units whose child process was started and has not terminated
Running == {u \in Units : unit[u].launches > 0 /\ ~unit[u].terminated}

\* C18: the script of a unit is written and started at most once, it is started
\* only when every earlier unit is in built, and at most one child process
\* that the run started has not terminated.
C18_Sequential ==
    /\ \A u \in Units : unit[u].scripts <= 1 /\ unit[u].launches <= 1
    /\ \A u \in Units :
          unit[u].launches > 0 => \A j \in 1..(u - 1) : InBuilt(j)
    /\ Cardinality(Running) <= 1

\* a unit was built, and the child of the next was started
C18_Witness ==
    \E u \in Units :
        /\ u > 1
        /\ unit[u - 1].launches = 1
        /\ unit[u].launches = 1
        /\ Running = {u}

(* --------------------------- the status notifier ------------------------ *)

\* C19: Builder.run calls the notifier only when pr_info.json is there and the
\* agent label is not "error"; then it sends "pending" once, before any unit is
\* attempted, and one terminal event after the last attempted unit, "success"
\* exactly when Builder.build returned True and "failure" otherwise, never a
\* terminal event before "pending"; a run that has ended has sent both.
C19_NotifierOrdering ==
    /\ ~notifies => statusCalls = <<>>
    /\ notifies =>
          /\ statusCalls \in {<<>>, <<"pending">>, <<"pending", "success">>,
                              <<"pending", "failure">>}
          /\ (\E u \in Units : Attempted(u)) => statusCalls # <<>>
          /\ Len(statusCalls) = 2 =>
                /\ BuildReturned
                /\ pc \in {"write", "exited", "raised"}
                /\ statusCalls[2] = "success" <=> retcode = "True"
          /\ RunEnded => Len(statusCalls) = 2

(* ------------------------ the display and the record -------------------- *)

\* C20: the terminal line written for a unit is a success line ("ok" or
\* "(already installed)") exactly when the unit is in built, and the ERROR
\* block exactly when the unit is failed_at.
C20_DisplayAgreesWithRecord ==
    \A u \in Units :
        /\ unit[u].reported \in {"ok", "(already installed)"} <=> InBuilt(u)
        /\ unit[u].reported = "ERROR" <=> failed_at = u

(* ------------------------- the tag and the log copy --------------------- *)

\* this run called eups.declare(tag=...) for u, or copied its log to the
\* product's directory
TaggedOrCopied(u) == declareCalls[u] > 0 \/ unit[u].copied

\* C21: the unit recorded as failed_at was not tagged by this run and its log
\* was not copied to the product's directory; a unit that was tagged by this
\* run, or whose log was copied, is in built.
C21_FailedUnitUntouched ==
    /\ failed_at # NoUnit => ~TaggedOrCopied(failed_at)
    /\ \A u \in Units : TaggedOrCopied(u) => InBuilt(u)

====
